---- MODULE Spec2Model ----
(***************************************************************************)
(* Model of the chat front end's streaming decoder (services/api.ts,       *)
(* api.post), of the message classifier (Chat, detectMessageType) and of   *)
(* the e-mail extractors (parseEmailFromText, parseMultipleEmails).        *)
(*                                                                         *)
(* Texts are TLA+ strings, one element per UTF-16 code unit of the         *)
(* JavaScript string; every string operation of the source is spelled out  *)
(* on them (split, startsWith, slice, includes, JSON.parse, the regular    *)
(* expressions).                                                           *)
(***************************************************************************)
EXTENDS Integers, Sequences, FiniteSets, TLC

(***************************************************************************)
(* Bounds of the model.                                                    *)
(***************************************************************************)
\* Most lines in one response body (specification Spec).
MaxLines == 2
\* Most pieces a classified text is put together from (specification SpecText).
MaxPieces == 3
\* Most numbered blocks in an e-mail list (specification SpecText).
MaxBlocks == 2
\* Most numbered segments in a list (specification SpecRecords).
MaxSegments == 3

(***************************************************************************)
(* JavaScript string primitives.                                           *)
(***************************************************************************)
\* s.substring(i - 1, j): the characters i..j (1-based), clamped to the string.
Sub(s, i, j) ==
  LET lo == IF i < 1 THEN 1 ELSE i
      hi == IF j > Len(s) THEN Len(s) ELSE j
  IN  IF lo > hi THEN "" ELSE SubSeq(s, lo, hi)

At(s, i) == Sub(s, i, i)

\* String.prototype.startsWith
StartsWith(s, p) == Len(s) >= Len(p) /\ Sub(s, 1, Len(p)) = p

\* String.prototype.slice(n), n >= 0
Slice(s, n) == Sub(s, n + 1, Len(s))

\* The positions (1-based) at which p occurs in s.
Occurrences(s, p) ==
  { j \in 1 .. (Len(s) - Len(p) + 1) : SubSeq(s, j, j + Len(p) - 1) = p }

Least(S) == CHOOSE j \in S : \A k \in S : j <= k

\* String.prototype.indexOf(p, from - 1) + 1: 0 when p does not occur.
IndexOfFrom(s, p, from) ==
  LET hits == { j \in Occurrences(s, p) : j >= from }
  IN  IF hits = {} THEN 0 ELSE Least(hits)

\* String.prototype.includes
Includes(s, p) == Occurrences(s, p) # {}

\* String.prototype.split(sep) for a non-empty separator string: the
\* separators are taken left to right, each after the end of the one before.
RECURSIVE SplitFrom(_, _, _, _)
SplitFrom(s, n, hits, from) ==
  LET later == { j \in hits : j >= from }
  IN  IF later = {} THEN << Sub(s, from, Len(s)) >>
      ELSE << Sub(s, from, Least(later) - 1) >>
           \o SplitFrom(s, n, later, Least(later) + n)

SplitOn(s, sep) == SplitFrom(s, Len(sep), Occurrences(s, sep), 1)

\* Concatenation of a sequence of strings.
RECURSIVE Concat(_)
Concat(ss) == IF ss = << >> THEN "" ELSE Head(ss) \o Concat(Tail(ss))

(***************************************************************************)
(* JSON.parse, on the texts the model feeds it: objects, strings (escapes  *)
(* \" \\ \/ \n \t), integers, true, false, null and insignificant white    *)
(* space.  Arrays, fractions, exponents and \u escapes do not occur in any *)
(* line of the model and are rejected.                                     *)
(* A value is a record [t, s, m]: its type, its string form, its members.  *)
(***************************************************************************)
JsonWs == { " ", "\t", "\n", "\r" }
Digits == { "0", "1", "2", "3", "4", "5", "6", "7", "8", "9" }

Undefined   == [t |-> "undefined", s |-> "undefined", m |-> << >>]
JNull       == [t |-> "null", s |-> "null", m |-> << >>]
JBool(b)    == [t |-> "boolean", s |-> b, m |-> << >>]
JString(x)  == [t |-> "string", s |-> x, m |-> << >>]
JNumber(x)  == [t |-> "number", s |-> x, m |-> << >>]
JObject(ms) == [t |-> "object", s |-> "[object Object]", m |-> ms]

ParseFail == [ok |-> FALSE, v |-> Undefined, i |-> 0]
ParseOk(v, i) == [ok |-> TRUE, v |-> v, i |-> i]

RECURSIVE SkipWs(_, _)
SkipWs(s, i) == IF i <= Len(s) /\ At(s, i) \in JsonWs THEN SkipWs(s, i + 1) ELSE i

RECURSIVE DigitRunEnd(_, _)
\* The index just after the run of digits that starts at i.
DigitRunEnd(s, i) == IF i <= Len(s) /\ At(s, i) \in Digits THEN DigitRunEnd(s, i + 1) ELSE i

RECURSIVE ParseStringBody(_, _, _)
\* s[i..] just after an opening quote; acc is the decoded text so far.
ParseStringBody(s, i, acc) ==
  IF i > Len(s) THEN ParseFail
  ELSE LET ch == At(s, i) IN
    IF ch = "\"" THEN ParseOk(JString(acc), i + 1)
    ELSE IF ch = "\\" THEN
      IF i + 1 > Len(s) THEN ParseFail
      ELSE LET e == At(s, i + 1) IN
        IF e \in { "\"", "\\", "/" } THEN ParseStringBody(s, i + 2, acc \o e)
        ELSE IF e = "n" THEN ParseStringBody(s, i + 2, acc \o "\n")
        ELSE IF e = "t" THEN ParseStringBody(s, i + 2, acc \o "\t")
        ELSE ParseFail
    ELSE IF ch \in { "\n", "\t", "\r" } THEN ParseFail
    ELSE ParseStringBody(s, i + 1, acc \o ch)

ParseNumber(s, i) ==
  LET neg  == At(s, i) = "-"
      d    == IF neg THEN i + 1 ELSE i
      e    == DigitRunEnd(s, d)
      lex  == Sub(s, d, e - 1)
  IN  IF e = d THEN ParseFail
      ELSE IF e - d > 1 /\ At(s, d) = "0" THEN ParseFail
      ELSE IF e <= Len(s) /\ At(s, e) \in { ".", "e", "E" } THEN ParseFail
      ELSE ParseOk(JNumber(IF neg /\ lex # "0" THEN "-" \o lex ELSE lex), e)

RECURSIVE ParseValue(_, _)
RECURSIVE ParseMembers(_, _, _)

\* s[i..] at the first character of a value.
ParseValue(s, i) ==
  IF i > Len(s) THEN ParseFail
  ELSE LET ch == At(s, i) IN
    IF ch = "{" THEN
      LET j == SkipWs(s, i + 1) IN
        IF j <= Len(s) /\ At(s, j) = "}" THEN ParseOk(JObject(<< >>), j + 1)
        ELSE ParseMembers(s, j, << >>)
    ELSE IF ch = "\"" THEN ParseStringBody(s, i + 1, "")
    ELSE IF Sub(s, i, i + 3) = "null" THEN ParseOk(JNull, i + 4)
    ELSE IF Sub(s, i, i + 3) = "true" THEN ParseOk(JBool("true"), i + 4)
    ELSE IF Sub(s, i, i + 4) = "false" THEN ParseOk(JBool("false"), i + 5)
    ELSE IF ch = "-" \/ ch \in Digits THEN ParseNumber(s, i)
    ELSE ParseFail

\* s[i..] at the opening quote of a member's key; ms are the members so far.
ParseMembers(s, i, ms) ==
  IF i > Len(s) \/ At(s, i) # "\"" THEN ParseFail
  ELSE LET key == ParseStringBody(s, i + 1, "") IN
    IF ~key.ok THEN ParseFail
    ELSE LET c == SkipWs(s, key.i) IN
      IF c > Len(s) \/ At(s, c) # ":" THEN ParseFail
      ELSE LET val == ParseValue(s, SkipWs(s, c + 1)) IN
        IF ~val.ok THEN ParseFail
        ELSE LET n   == SkipWs(s, val.i)
                 ms2 == Append(ms, [k |-> key.v.s, v |-> val.v])
             IN  IF n > Len(s) THEN ParseFail
                 ELSE IF At(s, n) = "," THEN ParseMembers(s, SkipWs(s, n + 1), ms2)
                 ELSE IF At(s, n) = "}" THEN ParseOk(JObject(ms2), n + 1)
                 ELSE ParseFail

\* JSON.parse(s): [ok |-> FALSE] stands for the SyntaxError it throws.
ParseText(s) ==
  LET r == ParseValue(s, SkipWs(s, 1))
  IN  IF r.ok /\ SkipWs(s, r.i) > Len(s) THEN r ELSE ParseFail

\* v[key] for a parsed value v: the last member of that name, else undefined.
GetProp(v, key) ==
  LET hits == { j \in 1 .. Len(v.m) : v.m[j].k = key }
  IN  IF hits = {} THEN Undefined
      ELSE v.m[CHOOSE j \in hits : \A k \in hits : k <= j].v

\* The string `result += x` appends for a value x.
AsString(v) == v.s

(***************************************************************************)
(* State.  One entry per api.post invocation (call); the locals of an      *)
(* invocation are the entries of its call.                                 *)
(***************************************************************************)
VARIABLES
  pc,               \* where each call stands: idle, fetching, reading, returned, failed
  req,              \* requestData of the call
  hasObserver,      \* whether onStream was passed
  fetches,          \* number of fetch() requests the call has issued
  plan,             \* the segments the transport was given for the response body
  wire,             \* the segments not yet handed out by reader.read()
  result,           \* local `result`
  snapshots,        \* the arguments of the onStream calls made so far, in order
  frags,            \* the fragments appended to `result` so far, in order
  ret,              \* << >> or << the value api.post resolved with >>
  error,            \* "none" or the error api.post rejected with
  cancelRequested,  \* the caller no longer wants the response
  tpc, text, given, kind, emails,  \* classifier and e-mail extractor, see below
  events            \* what parseCalendarEventsFromText returned

callVars == << pc, req, hasObserver, fetches, plan, wire, result, snapshots, frags,
               ret, error, cancelRequested >>
textVars == << tpc, text, given, kind, emails, events >>
vars == << callVars, textVars >>

Calls == { 1, 2 }
ConvIds == { "conv-1", "conv-2" }

(***************************************************************************)
(* The response bodies of the model: lines of the wire format and lines    *)
(* that are not frames, each terminated by a newline.                      *)
(***************************************************************************)
ContentLine(x) == "data: {\"type\":\"content\",\"content\":\"" \o x \o "\"}"
EndLine        == "data: {\"type\":\"end\"}"
BrokenLine     == "data: {\"type\":\"con"
NoContentLine  == "data: {\"type\":\"content\"}"
CommentLine    == ": ping"

\* The lines of the bodies of Spec.
LineKinds == { ContentLine("Hel"), EndLine, BrokenLine, NoContentLine }
\* Every line of the model.
KnownLines == LineKinds \cup { ContentLine("lo"), CommentLine, "" }

\* JSON.parse as api.post calls it.  ParseText is evaluated once for every
\* text that follows "data: " in a line that some cut of a body can produce,
\* and looked up afterwards; any other text is parsed on the spot.
ParsedPayloads ==
  [ s \in { Sub(l, 7, k) : l \in KnownLines, k \in 6 .. 64 } |-> ParseText(s) ]

JSONparse(s) == IF s \in DOMAIN ParsedPayloads THEN ParsedPayloads[s] ELSE ParseText(s)

RECURSIVE JoinLines(_)
JoinLines(ls) == IF ls = << >> THEN "" ELSE Head(ls) \o "\n" \o JoinLines(Tail(ls))

LineSeqs == UNION { [1 .. n -> LineKinds] : n \in 0 .. MaxLines }
Bodies == { JoinLines(ls) : ls \in LineSeqs }

(***************************************************************************)
(* api.post, lines 24-49: the decode loop.                                 *)
(* A decode state is [result, calls, frags, obs, thrown]: the local        *)
(* `result`, the observer calls made, the fragments appended, whether an   *)
(* observer was passed, and whether an exception has left the loop.        *)
(***************************************************************************)
\* Line 41: what the observer is given.
ObserverArgumentDelta(res, fragment) == fragment
ObserverArgument(res, fragment) == res

\* Lines 44-46: the catch block logs and goes on.
OnParseErrorRethrow(st) == [st EXCEPT !.thrown = TRUE]
OnParseError(st) == st

\* Lines 38-43: a parsed frame.
OnParsed(st, parsedData) ==
  IF parsedData.t = "null" THEN OnParseError(st)  \* null.type: a TypeError, caught
  ELSE IF GetProp(parsedData, "type") = JString("content") THEN
    LET fragment == AsString(GetProp(parsedData, "content"))
        res      == st.result \o fragment
    IN  [st EXCEPT !.result = res,
                   !.frags  = Append(@, fragment),
                   !.calls  = IF st.obs THEN Append(@, ObserverArgument(res, fragment)) ELSE @]
  ELSE st

\* Lines 35-47: one line of a chunk.
HandleLine(st, line) ==
  IF StartsWith(line, "data: ") THEN
    LET parsed == JSONparse(Slice(line, 6))
    IN  IF parsed.ok THEN OnParsed(st, parsed.v) ELSE OnParseError(st)
  ELSE st

\* Lines 34-48: the for loop; an exception that leaves it skips the rest.
RECURSIVE ProcessLines(_, _)
ProcessLines(st, lines) ==
  IF lines = << >> \/ st.thrown THEN st
  ELSE ProcessLines(HandleLine(st, Head(lines)), Tail(lines))

\* Lines 31-48: one chunk.  The chunks of the model are ASCII, on which
\* decoder.decode(value) is the identity.
DecodeChunk(st, chunk) == ProcessLines(st, SplitOn(chunk, "\n"))

DecodeState(c) ==
  [result |-> result[c], calls |-> snapshots[c], frags |-> frags[c],
   obs |-> hasObserver[c], thrown |-> FALSE]

\* Lines 51-56: the value api.post resolves with.
ReturnValueShared(c) ==
  [response |-> result[c], conversation_id |-> req[1].conversation_id]
ReturnValue(c) ==
  [response |-> result[c], conversation_id |-> req[c].conversation_id]

(***************************************************************************)
(* Init: no call has been made.                                            *)
(***************************************************************************)
NoRequest == [conversation_id |-> "none"]

CallInit ==
  /\ pc = [c \in Calls |-> "idle"]
  /\ req = [c \in Calls |-> NoRequest]
  /\ hasObserver = [c \in Calls |-> FALSE]
  /\ fetches = [c \in Calls |-> 0]
  /\ plan = [c \in Calls |-> << >>]
  /\ wire = [c \in Calls |-> << >>]
  /\ result = [c \in Calls |-> ""]
  /\ snapshots = [c \in Calls |-> << >>]
  /\ frags = [c \in Calls |-> << >>]
  /\ ret = [c \in Calls |-> << >>]
  /\ error = [c \in Calls |-> "none"]
  /\ cancelRequested = [c \in Calls |-> FALSE]

TextIdle ==
  /\ tpc = "off"
  /\ text = ""
  /\ given = << >>
  /\ kind = "none"
  /\ emails = << >>
  /\ events = << >>

Init == CallInit /\ TextIdle

(***************************************************************************)
(* api.post, one action per step between two awaits.                       *)
(***************************************************************************)
\* Lines 6-13: the call and its fetch().
Post(c, cid, obs) ==
  /\ pc[c] = "idle"
  /\ pc' = [pc EXCEPT ![c] = "fetching"]
  /\ req' = [req EXCEPT ![c] = [conversation_id |-> cid]]
  /\ hasObserver' = [hasObserver EXCEPT ![c] = obs]
  /\ fetches' = [fetches EXCEPT ![c] = @ + 1]
  /\ UNCHANGED << plan, wire, result, snapshots, frags, ret, error, cancelRequested >>
  /\ UNCHANGED textVars

\* The ways api.post rejects.
Reject(c, why) ==
  /\ pc' = [pc EXCEPT ![c] = "failed"]
  /\ error' = [error EXCEPT ![c] = why]
  /\ UNCHANGED << req, hasObserver, fetches, plan, wire, result, snapshots, frags, ret,
                  cancelRequested >>
  /\ UNCHANGED textVars

\* Line 7: fetch() itself rejects (no connection).
FetchReject(c) == pc[c] = "fetching" /\ Reject(c, "network")

\* Lines 15-17: a response whose status is not ok.
RespondNotOk(c) == pc[c] = "fetching" /\ Reject(c, "http")

\* Lines 19-22: an ok response without a body.
RespondNoBody(c) == pc[c] = "fetching" /\ Reject(c, "noreader")

\* Lines 19-25: an ok response whose body the transport delivers as segs.
Respond(c, segs) ==
  /\ pc[c] = "fetching"
  /\ pc' = [pc EXCEPT ![c] = "reading"]
  /\ plan' = [plan EXCEPT ![c] = segs]
  /\ wire' = [wire EXCEPT ![c] = segs]
  /\ result' = [result EXCEPT ![c] = ""]
  /\ UNCHANGED << req, hasObserver, fetches, snapshots, frags, ret, error, cancelRequested >>
  /\ UNCHANGED textVars

\* Lines 28-48: reader.read() resolves with the next n characters of the
\* segment at the head of the wire, and the chunk is decoded.
Read(c, n) ==
  /\ pc[c] = "reading"
  /\ wire[c] # << >>
  /\ n \in 0 .. Len(Head(wire[c]))
  /\ LET seg   == Head(wire[c])
         chunk == Sub(seg, 1, n)
         st    == DecodeChunk(DecodeState(c), chunk)
     IN  /\ wire' = [wire EXCEPT ![c] =
                       IF n = Len(seg) THEN Tail(@) ELSE << Slice(seg, n) >> \o Tail(@)]
         /\ result' = [result EXCEPT ![c] = st.result]
         /\ snapshots' = [snapshots EXCEPT ![c] = st.calls]
         /\ frags' = [frags EXCEPT ![c] = st.frags]
         /\ pc' = [pc EXCEPT ![c] = IF st.thrown THEN "failed" ELSE @]
         /\ error' = [error EXCEPT ![c] = IF st.thrown THEN "decode" ELSE @]
  /\ UNCHANGED << req, hasObserver, fetches, plan, ret, cancelRequested >>
  /\ UNCHANGED textVars

\* Lines 28-29 and 51-56: reader.read() resolves with done.
ReadDone(c) ==
  /\ pc[c] = "reading"
  /\ wire[c] = << >>
  /\ pc' = [pc EXCEPT ![c] = "returned"]
  /\ ret' = [ret EXCEPT ![c] = << ReturnValue(c) >>]
  /\ UNCHANGED << req, hasObserver, fetches, plan, wire, result, snapshots, frags, error,
                  cancelRequested >>
  /\ UNCHANGED textVars

\* Line 28: reader.read() rejects; nothing in api.post catches it.
ReadFailSwallowed(c) ==
  /\ pc[c] = "reading"
  /\ pc' = [pc EXCEPT ![c] = "returned"]
  /\ error' = [error EXCEPT ![c] = "read"]
  /\ ret' = [ret EXCEPT ![c] = << ReturnValue(c) >>]
  /\ UNCHANGED << req, hasObserver, fetches, plan, wire, result, snapshots, frags,
                  cancelRequested >>
  /\ UNCHANGED textVars
ReadFail(c) == pc[c] = "reading" /\ Reject(c, "read")

\* The caller gives up on the response.  api.post takes no AbortSignal and
\* hands out neither its reader nor its fetch, so all the caller can change
\* is its own wish.
CallerCancel(c) ==
  /\ pc[c] = "reading"
  /\ ~cancelRequested[c]
  /\ cancelRequested' = [cancelRequested EXCEPT ![c] = TRUE]
  /\ UNCHANGED << pc, req, hasObserver, fetches, plan, wire, result, snapshots, frags,
                  ret, error >>
  /\ UNCHANGED textVars

(***************************************************************************)
(* Spec: one call with an observer; the transport cuts the body into       *)
(* chunks anywhere, empty chunks included.                                 *)
(***************************************************************************)
Next ==
  \/ Post(1, "conv-1", TRUE)
  \/ FetchReject(1)
  \/ RespondNotOk(1)
  \/ RespondNoBody(1)
  \/ \E b \in Bodies : Respond(1, << b >>)
  \/ \E n \in 0 .. 200 : Read(1, n)
  \/ ReadDone(1)
  \/ ReadFail(1)

Spec == Init /\ [][Next]_vars

(***************************************************************************)
(* SpecCalls: two calls in flight at once, with or without an observer.    *)
(* The transport of each delivers one of the chunk sequences of Plans, a   *)
(* whole chunk per read, and the caller may give up on a call.             *)
(***************************************************************************)
Plans ==
  { << "data: {\"typ", "e\":\"content\",\"content\":\"Hel", "lo\"}\n" >>,
    << ContentLine("Hel") \o "\n", "", ContentLine("lo") \o "\n" >>,
    << CommentLine \o "\n\n" \o ContentLine("lo") \o "\n" \o EndLine \o "\n" >>,
    << ContentLine("Hel"), "\n" \o BrokenLine \o "\n" \o ContentLine("lo") >>,
    << NoContentLine \o "\n" \o ContentLine("Hel") \o "\n", ContentLine("lo") \o "\n" >> }

NextCalls ==
  \/ \E c \in Calls, cid \in ConvIds, obs \in BOOLEAN : Post(c, cid, obs)
  \/ \E c \in Calls : FetchReject(c)
  \/ \E c \in Calls : RespondNotOk(c)
  \/ \E c \in Calls : RespondNoBody(c)
  \/ \E c \in Calls, p \in Plans : Respond(c, p)
  \/ \E c \in Calls : wire[c] # << >> /\ Read(c, Len(Head(wire[c])))
  \/ \E c \in Calls : ReadDone(c)
  \/ \E c \in Calls : ReadFail(c)
  \/ \E c \in Calls : CallerCancel(c)

SpecCalls == Init /\ [][NextCalls]_vars

(***************************************************************************)
(* Chat.detectMessageType.                                                 *)
(***************************************************************************)
EmailMarker    == "[EMAIL]"
EventMarker    == "**Event**:"
LocationMarker == "**Location**:"

detectMessageTypeCalendarFirst(txt) ==
  IF Includes(txt, EventMarker) /\ Includes(txt, LocationMarker) THEN "calendar"
  ELSE IF Includes(txt, EmailMarker) THEN "email"
  ELSE "text"

detectMessageTypeByLabel(txt) ==
  IF Includes(txt, EmailMarker) \/ Includes(txt, "**From**:") THEN "email"
  ELSE IF Includes(txt, EventMarker) /\ Includes(txt, LocationMarker) THEN "calendar"
  ELSE "text"

detectMessageType(txt) ==
  IF Includes(txt, EmailMarker) THEN "email"
  ELSE IF Includes(txt, EventMarker) /\ Includes(txt, LocationMarker) THEN "calendar"
  ELSE "text"

(***************************************************************************)
(* The regular expressions of the extractors.                              *)
(***************************************************************************)
\* \s, on the characters of the model's texts.
RegexSpace == { " ", "\t", "\n", "\r" }

RECURSIVE SkipSpace(_, _)
\* \s* from position i: the position it stops at.
SkipSpace(s, i) == IF i <= Len(s) /\ At(s, i) \in RegexSpace THEN SkipSpace(s, i + 1) ELSE i

RECURSIVE SkipSpaceBack(_, _)
SkipSpaceBack(s, i) == IF i >= 1 /\ At(s, i) \in RegexSpace THEN SkipSpaceBack(s, i - 1) ELSE i

\* String.prototype.trim
Trim(s) == Sub(s, SkipSpace(s, 1), SkipSpaceBack(s, Len(s)))

\* The matches of /\d+\./ in s, as the positions they start at: a match
\* starts where a run of digits starts, when a full stop follows the run.
NumberedMatches(s) ==
  { i \in 1 .. Len(s) :
      /\ At(s, i) \in Digits
      /\ At(s, i - 1) \notin Digits
      /\ At(s, DigitRunEnd(s, i)) = "." }

RECURSIVE SplitAtMatches(_, _, _)
SplitAtMatches(s, starts, from) ==
  IF starts = {} THEN << Sub(s, from, Len(s)) >>
  ELSE LET i == Least(starts)
       IN  << Sub(s, from, i - 1) >>
           \o SplitAtMatches(s, starts \ { i }, DigitRunEnd(s, i) + 1)

\* text.split(/\d+\./)
SplitNumbered(s) == SplitAtMatches(s, NumberedMatches(s), 1)

\* (?=\s*-\s*<next>) at position k.
LookaheadAt(s, k, next) ==
  LET dash == SkipSpace(s, k)
  IN  /\ At(s, dash) = "-"
      /\ LET lab == SkipSpace(s, dash + 1)
         IN  Sub(s, lab, lab + Len(next) - 1) = next /\ lab + Len(next) - 1 <= Len(s)

\* s.match(/<label> (.*?)(?=\s*-\s*<next>)/s): << >> for null, else << the
\* group >>.  The match starts at the first <label> and the lazy group ends
\* at the first position where the lookahead holds.
MatchUpTo(s, label, next) ==
  LET i == IndexOfFrom(s, label, 1)
      g == i + Len(label)
      ends == IF i = 0 THEN {} ELSE { k \in g .. Len(s) + 1 : LookaheadAt(s, k, next) }
  IN  IF ends = {} THEN << >> ELSE << Sub(s, g, Least(ends) - 1) >>

\* s.match(/<label> (.*?)$/s): without the m flag $ is the end of the text.
MatchToEnd(s, label) ==
  LET i == IndexOfFrom(s, label, 1)
  IN  IF i = 0 THEN << >> ELSE << Sub(s, i + Len(label), Len(s)) >>

(***************************************************************************)
(* parseEmailFromText and parseMultipleEmails.                             *)
(***************************************************************************)
\* << >> for null, else << the record >>.
parseEmailFromText(txt) ==
  LET fromMatch    == MatchUpTo(txt, "**From**: ", "**Date**:")
      dateMatch    == MatchUpTo(txt, "**Date**: ", "**Subject**:")
      subjectMatch == MatchUpTo(txt, "**Subject**: ", "**Content**:")
      contentMatch == MatchToEnd(txt, "**Content**: ")
  IN  IF fromMatch = << >> \/ dateMatch = << >> \/ subjectMatch = << >> \/ contentMatch = << >>
      THEN << >>
      ELSE << [from    |-> Trim(fromMatch[1]),
               date    |-> Trim(dateMatch[1]),
               subject |-> Trim(subjectMatch[1]),
               content |-> Trim(contentMatch[1])] >>

closingPhrases ==
  { "If you need more information",
    "If you need any further actions",
    "Let me know if you need",
    "Just let me know",
    "Is there anything else" }

IsEmailBlockFirstPhrase(block) == ~Includes(block, "If you need more information")

IsEmailBlock(block) == ~ \E phrase \in closingPhrases : Includes(block, phrase)

RECURSIVE ParseBlocks(_)
ParseBlocks(blocks) ==
  IF blocks = << >> THEN << >>
  ELSE parseEmailFromText(Head(blocks)) \o ParseBlocks(Tail(blocks))

parseMultipleEmails(txt) ==
  LET emailBlocks    == Tail(SplitNumbered(txt))
      filteredBlocks == SelectSeq(emailBlocks, IsEmailBlock)
  IN  ParseBlocks(filteredBlocks)

(***************************************************************************)
(* The texts the classifier and the extractor are run on.                  *)
(***************************************************************************)
\* Pieces of a reply: the three markers, two near misses and plain words.
Pieces == { EmailMarker, EventMarker, LocationMarker, "[EMAIL", "**Event**", " on Monday " }

PieceSeqs == UNION { [1 .. n -> Pieces] : n \in 0 .. MaxPieces }

\* The field values of the blocks of an e-mail list.
BlockValues ==
  { [from |-> "a@x.com", date |-> "Mon", subject |-> "Hi", content |-> "test"],
    [from |-> " bob@y.org ", date |-> "Tue\n", subject |-> "Re: plan - B", content |-> "see you\nthere "],
    [from |-> "c@z.io", date |-> "3.11.2026", subject |-> "v2", content |-> "ok"] }

BlockSeqs == UNION { [1 .. n -> BlockValues] : n \in 0 .. MaxBlocks }

FormatBlock(b) ==
  "**From**: " \o b.from \o " - **Date**: " \o b.date
    \o " - **Subject**: " \o b.subject \o " - **Content**: " \o b.content

Numeral(i) == << "1", "2", "3", "4", "5", "6", "7", "8", "9" >>[i]

RECURSIVE NumberedList(_, _)
\* The blocks bs as items i, i + 1, ... of a numbered list, one per line.
NumberedList(bs, i) ==
  IF bs = << >> THEN ""
  ELSE Numeral(i) \o ". " \o FormatBlock(Head(bs))
       \o (IF Len(bs) > 1 THEN "\n" ELSE "") \o NumberedList(Tail(bs), i + 1)

NoPieces == << >>
NoBlocks == << >>

\* SpecText starts with a text to work on: a run of pieces or an e-mail list.
TextInit ==
  /\ tpc = "ready"
  /\ kind = "none"
  /\ emails = << >>
  /\ events = << >>
  /\ \/ \E ps \in PieceSeqs :
          /\ given = [pieces |-> ps, blocks |-> NoBlocks]
          /\ text = Concat(ps)
     \/ \E bs \in BlockSeqs :
          /\ given = [pieces |-> NoPieces, blocks |-> bs]
          /\ text = NumberedList(bs, 1)

\* Chat.handleSend, line 177: the reply is classified.
Classify ==
  /\ tpc # "off"
  /\ kind = "none"
  /\ kind' = detectMessageType(text)
  /\ UNCHANGED << tpc, text, given, emails, events >>
  /\ UNCHANGED callVars

\* parseMultipleEmails(text)
ExtractEmails ==
  /\ tpc = "ready"
  /\ tpc' = "extracted"
  /\ emails' = parseMultipleEmails(text)
  /\ UNCHANGED << text, given, kind, events >>
  /\ UNCHANGED callVars

NextText == Classify \/ ExtractEmails

InitText == CallInit /\ TextInit

SpecText == InitText /\ [][NextText]_vars

(***************************************************************************)
(* parseCalendarEventsFromText.                                            *)
(***************************************************************************)
\* << >> when a label does not match, else << the record >>.
parseEventBlock(block) ==
  LET eventMatch    == MatchUpTo(block, "**Event**: ", "**Location**:")
      locationMatch == MatchUpTo(block, "**Location**: ", "**Time**:")
      timeMatch     == MatchToEnd(block, "**Time**: ")
  IN  IF eventMatch # << >> /\ locationMatch # << >> /\ timeMatch # << >>
      THEN << [event    |-> Trim(eventMatch[1]),
               location |-> Trim(locationMatch[1]),
               time     |-> Trim(timeMatch[1])] >>
      ELSE << >>

RECURSIVE ParseEventBlocks(_)
ParseEventBlocks(blocks) ==
  IF blocks = << >> THEN << >>
  ELSE parseEventBlock(Head(blocks)) \o ParseEventBlocks(Tail(blocks))

parseCalendarEventsFromText(txt) ==
  LET eventBlocks == Tail(SplitNumbered(txt))
  IN  ParseEventBlocks(eventBlocks)

(***************************************************************************)
(* Numbered lists whose segments may be closing remarks or defective.      *)
(***************************************************************************)
FormatEvent(e) ==
  "**Event**: " \o e.event \o " - **Location**: " \o e.location \o " - **Time**: " \o e.time

\* A segment of a list: the text after its number, and whether the text was
\* written with one of the closing phrases in it.
Segment(body, closing) == [body |-> body, closing |-> closing]

EmailSegments ==
  { Segment(FormatBlock([from |-> "a@x.com", date |-> "Mon", subject |-> "Hi", content |-> "test"]), FALSE),
    Segment(FormatBlock([from |-> "bob@y.org", date |-> "Tue", subject |-> "Plan",
                         content |-> "Done. Let me know if you need more"]), TRUE),
    Segment(FormatBlock([from |-> "eve@v.org", date |-> "Thu", subject |-> "Minutes", content |-> "attached"]), FALSE),
    Segment("Is there anything else I can do?", TRUE),
    Segment("**From**: d@w.net - **Subject**: Hi - **Content**: undated", FALSE),
    Segment(FormatBlock([from |-> "", date |-> "Wed", subject |-> " ", content |-> "late"]), FALSE) }

EventSegments ==
  { Segment(FormatEvent([event |-> "Standup", location |-> "Room 2", time |-> "10:00"]), FALSE),
    Segment(FormatEvent([event |-> "Lunch", location |-> "", time |-> " "]), FALSE),
    Segment("**Event**: Review - **Location**: HQ", FALSE) }

SegmentSeqs ==
  UNION { [1 .. n -> EmailSegments] \cup [1 .. n -> EventSegments] : n \in 0 .. MaxSegments }

RECURSIVE NumberedSegments(_, _)
\* The segments ss as items i, i + 1, ... of a numbered list, one per line.
NumberedSegments(ss, i) ==
  IF ss = << >> THEN ""
  ELSE Numeral(i) \o ". " \o Head(ss).body \o "\n" \o NumberedSegments(Tail(ss), i + 1)

RecordsInit ==
  /\ tpc = "ready"
  /\ kind = "none"
  /\ emails = << >>
  /\ events = << >>
  /\ \E ss \in SegmentSeqs :
       /\ given = [segments |-> ss]
       /\ text = NumberedSegments(ss, 1)

\* parseCalendarEventsFromText(text)
ExtractEvents ==
  /\ tpc = "ready"
  /\ tpc' = "extractedEvents"
  /\ events' = parseCalendarEventsFromText(text)
  /\ UNCHANGED << text, given, kind, emails >>
  /\ UNCHANGED callVars

NextRecords == ExtractEmails \/ ExtractEvents

InitRecords == CallInit /\ RecordsInit

SpecRecords == InitRecords /\ [][NextRecords]_vars

(***************************************************************************)
(* Vocabulary of the properties.                                           *)
(***************************************************************************)
\* The whole text of the response body of call c.
Body(c) == Concat(plan[c])

\* The lines of a text whose every line ends with a newline.
TerminatedLines(T) ==
  LET ps == SplitOn(T, "\n") IN SubSeq(ps, 1, Len(ps) - 1)

Payload(line) == JSONparse(Slice(line, 6))

\* A line of the wire format: "data: " and a JSON object.
IsFrame(line) ==
  StartsWith(line, "data: ") /\ Payload(line).ok /\ Payload(line).v.t = "object"

\* A frame whose type is 'content'.
IsContentFrame(line) ==
  IsFrame(line) /\ GetProp(Payload(line).v, "type") = JString("content")

\* A content frame that carries its fragment as a string.
HasFragment(line) ==
  IsContentFrame(line) /\ GetProp(Payload(line).v, "content").t = "string"

\* A line that starts with "data: " and goes on with something JSON.parse rejects.
IsUnparsable(line) == StartsWith(line, "data: ") /\ ~Payload(line).ok

\* A content frame without a `content` member.
LacksContent(line) ==
  IsContentFrame(line) /\ GetProp(Payload(line).v, "content") = Undefined

RECURSIVE FragmentsOf(_)
\* The `content` values of the content frames among lines, in line order.
FragmentsOf(lines) ==
  IF lines = << >> THEN << >>
  ELSE (IF HasFragment(Head(lines))
        THEN << GetProp(Payload(Head(lines)).v, "content").s >> ELSE << >>)
       \o FragmentsOf(Tail(lines))

WellFormedBody(T) ==
  /\ T = "" \/ Sub(T, Len(T), Len(T)) = "\n"
  /\ \A k \in 1 .. Len(TerminatedLines(T)) :
       LET line == TerminatedLines(T)[k]
       IN  IsFrame(line) /\ (IsContentFrame(line) => HasFragment(line))

RemoveAt(seq, k) == SubSeq(seq, 1, k - 1) \o SubSeq(seq, k + 1, Len(seq))

IsPrefix(a, b) == StartsWith(b, a)

\* The chunk that reader.read() hands to call c in the step at hand, "" when
\* the step is no read of c.
StepChunk(c) ==
  IF pc[c] # "reading" \/ wire[c] = << >> THEN ""
  ELSE IF Len(wire'[c]) < Len(wire[c]) THEN Head(wire[c])
  ELSE Sub(Head(wire[c]), 1, Len(Head(wire[c])) - Len(Head(wire'[c])))

StepLines(c) == SplitOn(StepChunk(c), "\n")

\* The step at hand leaves call c as decoding `lines` would.
StepDecodesAs(c, lines) ==
  LET st == ProcessLines(DecodeState(c), lines)
  IN  /\ result'[c] = st.result
      /\ snapshots'[c] = st.calls
      /\ pc'[c] = pc[c]
      /\ error'[c] = "none"

(***************************************************************************)
(* C1.  For a body of newline-terminated frames, whatever the cuts, the    *)
(* text api.post returns is the concatenation, in line order, of the       *)
(* `content` values of the frames of type 'content'.                       *)
(***************************************************************************)
C1_ChunkingIndependent ==
  \A c \in Calls :
    pc[c] = "returned" /\ WellFormedBody(Body(c))
      => ret[c][1].response = Concat(FragmentsOf(TerminatedLines(Body(c))))

(***************************************************************************)
(* C2.  A line "data: " + invalid JSON changes nothing: the read that      *)
(* meets it leaves the text and the observer calls as the same chunk       *)
(* without that line would, the call goes on reading, and no call ever     *)
(* fails on decoding.                                                      *)
(***************************************************************************)
C2_UnparsableStep ==
  \A c \in Calls : \A lines \in { StepLines(c) } :
    \A k \in 1 .. Len(lines) :
      IsUnparsable(lines[k]) => StepDecodesAs(c, RemoveAt(lines, k))

C2_UnparsableSkipped ==
  [][C2_UnparsableStep /\ \A c \in Calls : error'[c] # "decode"]_vars

\* A body whose unparsable first line is followed by a frame has been
\* decoded to the end, and the frame's fragment is the text.
C2_Witness ==
  /\ pc[1] = "returned"
  /\ Body(1) = JoinLines(<< BrokenLine, ContentLine("Hel") >>)
  /\ ret[1][1].response = "Hel"

(***************************************************************************)
(* C3.  A content frame without a `content` member adds nothing to the     *)
(* text: the read that meets it leaves the text and the observer calls as  *)
(* the same chunk without that line would.                                 *)
(***************************************************************************)
C3_LacksContentStep ==
  \A c \in Calls : \A lines \in { StepLines(c) } :
    \A k \in 1 .. Len(lines) :
      LacksContent(lines[k]) => StepDecodesAs(c, RemoveAt(lines, k))

C3_LacksContentSkipped == [][C3_LacksContentStep]_vars

(***************************************************************************)
(* C4.  With an observer, every step makes one observer call for each      *)
(* content frame among the lines it decodes and none for any other line;   *)
(* the calls already made stay as they are; call number j is given the     *)
(* first j fragments joined, so each argument is a prefix of the next and  *)
(* the last one is the accumulated text, which is the text returned.       *)
(***************************************************************************)
C4_Step(c) ==
  \A lines \in { StepLines(c) } :
    LET accepted == { k \in 1 .. Len(lines) : IsContentFrame(lines[k]) }
        before   == snapshots[c]
        after    == snapshots'[c]
    IN  /\ Len(after) = Len(before) + Cardinality(accepted)
        /\ SubSeq(after, 1, Len(before)) = before
        /\ \A j \in 1 .. Len(after) : after[j] = Concat(SubSeq(frags'[c], 1, j))
        /\ \A j \in 2 .. Len(after) : IsPrefix(after[j - 1], after[j])
        /\ \A j \in 1 .. Len(after) : IsPrefix(after[j], result'[c])
        /\ after # << >> => after[Len(after)] = result'[c]
        /\ pc'[c] = "returned" => ret'[c] # << >> /\ ret'[c][1].response = result'[c]

C4_Snapshots == [][\A c \in Calls : hasObserver[c] => C4_Step(c)]_vars

\* Two frames were accepted, the observer was called twice, the second time
\* with both fragments, and the call has returned.
C4_Witness ==
  /\ pc[1] = "returned"
  /\ hasObserver[1]
  /\ snapshots[1] = << "Hel", "HelHel" >>
  /\ ret[1][1].response = "HelHel"

(***************************************************************************)
(* C5.  A call that meets an error fails and returns nothing; when the     *)
(* error is a refused fetch, a status that is not ok or a missing body,    *)
(* the observer was never called; a failed call does nothing more: no      *)
(* observer call, no read, no second request.                              *)
(***************************************************************************)
BeforeStream == { "network", "http", "noreader" }

C5_Step(c) ==
  /\ error'[c] # "none" => pc'[c] = "failed" /\ ret'[c] = << >>
  /\ pc'[c] = "failed" => error'[c] # "none"
  /\ error'[c] \in BeforeStream => snapshots'[c] = << >> /\ plan'[c] = << >>
  /\ fetches'[c] <= 1
  /\ pc[c] = "failed" =>
       /\ pc'[c] = "failed" /\ error'[c] = error[c] /\ ret'[c] = << >>
       /\ snapshots'[c] = snapshots[c] /\ result'[c] = result[c]
       /\ wire'[c] = wire[c] /\ fetches'[c] = fetches[c]

C5_TransportFailure == [][\A c \in Calls : C5_Step(c)]_vars

\* A read failed after the observer had been called, and nothing was returned.
C5_Witness ==
  /\ pc[1] = "failed"
  /\ error[1] = "read"
  /\ snapshots[1] # << >>
  /\ ret[1] = << >>

(***************************************************************************)
(* C6.  Once the caller has given up on a call, the call makes no further  *)
(* observer call, adds nothing to its text and does not fail.              *)
(***************************************************************************)
C6_CancelStops ==
  [][\A c \in Calls :
       cancelRequested[c] =>
         /\ snapshots'[c] = snapshots[c]
         /\ result'[c] = result[c]
         /\ error'[c] = "none"]_vars

(***************************************************************************)
(* C7.  With two calls in flight, whatever the order of their reads, the   *)
(* observer calls and the text of each call are those of a decode of its   *)
(* own chunks alone, and each call returns that text with the              *)
(* conversation_id of its own request.                                     *)
(***************************************************************************)
RECURSIVE DecodeAlone(_, _)
\* A decode of chunks, from decode state st, with nothing else going on.
DecodeAlone(st, chunks) ==
  IF chunks = << >> THEN st
  ELSE DecodeAlone(DecodeChunk(st, Head(chunks)), Tail(chunks))

FreshDecode(obs) ==
  [result |-> "", calls |-> << >>, frags |-> << >>, obs |-> obs, thrown |-> FALSE]

\* The chunks call c has been handed so far.
Delivered(c) == SubSeq(plan[c], 1, Len(plan[c]) - Len(wire[c]))

C7_Independent ==
  \A c \in Calls :
    LET alone == DecodeAlone(FreshDecode(hasObserver[c]), Delivered(c))
    IN  /\ result[c] = alone.result
        /\ snapshots[c] = alone.calls
        /\ pc[c] = "returned" =>
             ret[c] = << [response |-> DecodeAlone(FreshDecode(hasObserver[c]), plan[c]).result,
                          conversation_id |-> req[c].conversation_id] >>

\* Call 2 started and finished while call 1 was in the middle of its
\* chunks; the two carry different conversation ids.
C7_Witness ==
  /\ pc[1] = "reading" /\ Len(wire[1]) = 1 /\ Len(plan[1]) = 3
  /\ snapshots[1] = << "Hel" >>
  /\ pc[2] = "returned"
  /\ ret[2][1] = [response |-> "undefinedHello", conversation_id |-> "conv-1"]
  /\ req[1].conversation_id = "conv-2"

(***************************************************************************)
(* C8.  detectMessageType gives one of email, calendar, text: email when   *)
(* the text holds the e-mail marker, whatever else it holds; calendar when *)
(* it holds no e-mail marker and both the Event and the Location marker;   *)
(* text in every other case.                                               *)
(***************************************************************************)
HasPiece(m) == \E k \in 1 .. Len(given.pieces) : given.pieces[k] = m

C8_Classification ==
  kind # "none" =>
    /\ kind \in { "email", "calendar", "text" }
    /\ kind = "email" <=> HasPiece(EmailMarker)
    /\ kind = "calendar" <=>
         ~HasPiece(EmailMarker) /\ HasPiece(EventMarker) /\ HasPiece(LocationMarker)
    /\ kind = "text" <=>
         ~HasPiece(EmailMarker) /\ ~(HasPiece(EventMarker) /\ HasPiece(LocationMarker))

\* A text with all three markers has been classified, as email.
C8_Witness ==
  /\ HasPiece(EmailMarker) /\ HasPiece(EventMarker) /\ HasPiece(LocationMarker)
  /\ kind = "email"

(***************************************************************************)
(* C9.  The text "1. **From**: a@x.com - **Date**: Mon - **Subject**: Hi - *)
(* **Content**: test" and its one record.                                  *)
(***************************************************************************)
ExampleText == "1. **From**: a@x.com - **Date**: Mon - **Subject**: Hi - **Content**: test"
ExampleRecord == [from |-> "a@x.com", date |-> "Mon", subject |-> "Hi", content |-> "test"]

\* C9 as claimed: the text is classified email, and parseMultipleEmails
\* returns exactly the record.
C9_ExampleIsEmail ==
  text = ExampleText =>
    /\ kind # "none" => kind = "email"
    /\ tpc = "extracted" => emails = << ExampleRecord >>

\* C9 as amended: the text is classified text, for it holds no e-mail
\* marker, and parseMultipleEmails returns exactly the record.
C9_ExampleIsText ==
  text = ExampleText =>
    /\ kind # "none" => kind = "text"
    /\ tpc = "extracted" => emails = << ExampleRecord >>

C9_Witness ==
  /\ text = ExampleText
  /\ kind = "text"
  /\ tpc = "extracted"
  /\ emails = << ExampleRecord >>

(***************************************************************************)
(* C10.  For a numbered list of well-formed blocks, parseMultipleEmails    *)
(* returns one record per block, in order, with the trimmed values of the  *)
(* block; for the empty text it returns no record.                         *)
(***************************************************************************)
TrimmedRecord(b) ==
  [from |-> Trim(b.from), date |-> Trim(b.date),
   subject |-> Trim(b.subject), content |-> Trim(b.content)]

C10_RoundTrip ==
  tpc = "extracted" /\ given.pieces = NoPieces =>
    emails = [k \in 1 .. Len(given.blocks) |-> TrimmedRecord(given.blocks[k])]

(***************************************************************************)
(* C11.  In parseMultipleEmails a segment that holds a closing phrase      *)
(* gives no record, even with all four labels in it, and the other         *)
(* segments are extracted, in order, as if that segment were not there.    *)
(***************************************************************************)
IsRemark(seg) == seg.closing
IsKept(seg) == ~seg.closing

C11_ClosingExcluded ==
  tpc = "extracted" /\ DOMAIN given = { "segments" } =>
    /\ emails = parseMultipleEmails(NumberedSegments(SelectSeq(given.segments, IsKept), 1))
    /\ Len(emails) <= Len(SelectSeq(given.segments, IsKept))
    /\ \A k \in 1 .. Len(emails) : ~ \E phrase \in closingPhrases :
         Includes(emails[k].content, phrase)

\* A closing segment with all four labels stood between two well-formed
\* segments, and exactly the records of these two were returned, in order.
C11_Witness ==
  /\ tpc = "extracted"
  /\ DOMAIN given = { "segments" }
  /\ Len(given.segments) = 3
  /\ given.segments[2].closing
  /\ Includes(given.segments[2].body, "**Content**: ")
  /\ emails = << ExampleRecord,
                 [from |-> "eve@v.org", date |-> "Thu", subject |-> "Minutes", content |-> "attached"] >>

(***************************************************************************)
(* C12.  Every record an extractor returns has all its fields non-empty:   *)
(* from, date, subject and content of the records of parseMultipleEmails,  *)
(* event, location and time of those of parseCalendarEventsFromText; a     *)
(* segment with a label missing or an empty value gives no record.         *)
(***************************************************************************)
C12_FieldsNonEmpty ==
  /\ \A k \in 1 .. Len(emails) :
       /\ emails[k].from # ""
       /\ emails[k].date # ""
       /\ emails[k].subject # ""
       /\ emails[k].content # ""
  /\ \A k \in 1 .. Len(events) :
       /\ events[k].event # ""
       /\ events[k].location # ""
       /\ events[k].time # ""

====
